---- MODULE Spec2Model ----
(***************************************************************************)
(* A model of the withdrawal client of pq-tornado:                         *)
(*   - the commitment encoder (calculateCommitment, hexToBytes),           *)
(*   - the fetch clients (getMerkleProof, getCurrentRoot,                  *)
(*     checkCommitmentExists) and their composition                        *)
(*     generateCommitmentAndProof, run against an indexing service and an  *)
(*     on-chain tree that deposits change concurrently,                    *)
(*   - the withdraw page's submission handler (handleWithdraw).            *)
(*                                                                         *)
(* Texts are sequences of one-character strings (hex inputs) or sequences  *)
(* of tokens (error messages); an optional value is a sequence of length 0 *)
(* or 1.                                                                   *)
(***************************************************************************)
EXTENDS Integers, Sequences, FiniteSets, TLC

\* ------------------------------------------------------------------ bounds

\* Most bytes a call's secret and nullifier hold together.
MaxTotalBytes == 2

\* Depth of the Merkle tree.
TreeDepth == 2

\* Most deposits made.
MaxDeposits == 2

\* Most invocations the caller starts.
MaxInvocations == 2

\* Most clicks on the Withdraw button.
MaxClicks == 2

\* Longest siblings / pathIndices list a service body carries.
MaxProofLen == 2

\* Width of the big-endian encoding of assetId and amount (new Uint8Array(32)).
FieldBytes == 32

\* ------------------------------------------------- commitment encoder

\* The digits parseInt reads in radix 16, in lower and in upper case. The texts
\* drawn hold no white space and no sign.
HexDigits == <<"0", "1", "2", "3", "4", "5", "6", "7", "8", "9",
               "a", "b", "c", "d", "e", "f">>

UpperHexDigits == <<"0", "1", "2", "3", "4", "5", "6", "7", "8", "9",
                    "A", "B", "C", "D", "E", "F">>

IsHexDigit(c) == \E i \in 1..16 : HexDigits[i] = c \/ UpperHexDigits[i] = c

HexValue(c) == CHOOSE i \in 0..15 : HexDigits[i + 1] = c \/ UpperHexDigits[i + 1] = c

\* String.prototype.startsWith("0x")
StartsWith0x(hex) == Len(hex) >= 2 /\ hex[1] = "0" /\ hex[2] = "x"

\* parseInt(s, 16) of a two-character text over hex digits and other letters:
\* the longest prefix of hex digits is read, <<>> stands for NaN (no digit
\* read; "0x" alone is a prefix with no digit after it).
parseInt16(s) ==
  IF ~IsHexDigit(s[1]) THEN <<>>
  ELSE IF s[1] = "0" /\ s[2] = "x" THEN <<>>
  ELSE IF ~IsHexDigit(s[2]) THEN <<HexValue(s[1])>>
  ELSE <<16 * HexValue(s[1]) + HexValue(s[2])>>

\* Storing a number in a Uint8Array element: NaN is stored as 0, an integer
\* modulo 256.
ToUint8(v) == IF v = <<>> THEN 0 ELSE v[1] % 256

\* hexToBytes: the prefix is dropped, the array has floor(length / 2) elements
\* (a fractional length is truncated), each the parse of two characters.
hexToBytes(hex) ==
  LET h == IF StartsWith0x(hex) THEN SubSeq(hex, 3, Len(hex)) ELSE hex
      n == Len(h) \div 2
  IN  [i \in 1..n |-> ToUint8(parseInt16(SubSeq(h, 2 * i - 1, 2 * i)))]

\* The loop of calculateCommitment: bytes[31 - i] = (v >> 8i) & 0xff for i in
\* 0..31, so the last byte is v & 0xff and the bytes before it encode v >> 8
\* (an arithmetic shift: floor division by 256).
RECURSIVE BigEndian(_, _)
BigEndian(v, n) ==
  IF n = 0 THEN <<>> ELSE Append(BigEndian(v \div 256, n - 1), v % 256)

BigEndianBytes(v) == BigEndian(v, FieldBytes)

\* The byte string calculateCommitment hashes.
CombinedBytesAmountFromAssetId(secret, nullifier, assetId, amount) ==
  hexToBytes(secret) \o hexToBytes(nullifier)
    \o BigEndianBytes(assetId) \o BigEndianBytes(assetId)

CombinedBytes(secret, nullifier, assetId, amount) ==
  hexToBytes(secret) \o hexToBytes(nullifier)
    \o BigEndianBytes(assetId) \o BigEndianBytes(amount)

\* keccak256, taken as collision-free: a hash is named by its preimage.
keccak256(bytes) == [keccak256 |-> bytes]

calculateCommitment(secret, nullifier, assetId, amount) ==
  keccak256(CombinedBytes(secret, nullifier, assetId, amount))

\* A text the spec calls well-formed hex: an optional 0x, then an even number
\* of hex digits.
WellFormedHex(hex) ==
  LET h == IF StartsWith0x(hex) THEN SubSeq(hex, 3, Len(hex)) ELSE hex
  IN  Len(h) % 2 = 0 /\ \A i \in 1..Len(h) : IsHexDigit(h[i])

\* ------------------------------------------------------------ inputs

ByteTexts == {<<"0", "1">>, <<"0", "2">>}

RECURSIVE HexBodies(_)
HexBodies(n) ==
  IF n = 0 THEN {<<>>}
  ELSE HexBodies(n - 1)
         \cup {b \o t : b \in {x \in HexBodies(n - 1) : Len(x) = 2 * (n - 1)},
                        t \in ByteTexts}

\* Well-formed inputs: 0x-prefixed texts of whole bytes.
ValidHexInputs == {<<"0", "x">> \o b : b \in HexBodies(MaxTotalBytes)}

AssetIds == {1, 256}
Amounts == {1, 256}

\* The calls drawn: well-formed texts of at most MaxTotalBytes bytes together.
ValidArgs ==
  {a \in [secret : ValidHexInputs, nullifier : ValidHexInputs,
          assetId : AssetIds, amount : Amounts] :
     Len(hexToBytes(a.secret)) + Len(hexToBytes(a.nullifier)) <= MaxTotalBytes}

CommitmentOf(a) ==
  calculateCommitment(a.secret, a.nullifier, a.assetId, a.amount)

\* ------------------------------------------------------ fetch clients

\* A fetch ends in one of two ways: the promise rejects (kind "rejected", with
\* the runtime's message) or a response arrives (kind "response"): ok is the
\* HTTP status being 2xx, text the body read as text, data the body parsed as
\* JSON, <<>> when the body is no JSON. In a parsed body a field that is
\* absent (undefined) is <<>>.
Rejected(message) ==
  [kind |-> "rejected", ok |-> FALSE, text |-> message, data |-> <<>>]

Response(ok, text, data) ==
  [kind |-> "response", ok |-> ok, text |-> text, data |-> data]

Body(success, error, merkleProof, root, exists, index) ==
  [success |-> success, error |-> error, merkleProof |-> merkleProof,
   root |-> root, exists |-> exists, index |-> index]

\* `${x}` of an optional text: an absent one prints as "undefined".
Interpolate(t) == IF t = <<>> THEN <<"undefined">> ELSE t[1]

\* The message response.json() throws on a body that is no JSON.
JsonSyntaxError == <<"Unexpected token < in JSON at position 0">>

\* A function's end: a value returned, or an Error thrown with a message. A
\* message is a sequence of tokens, none of them the start of another, so two
\* messages are the same text exactly when they are the same sequence.
Return(v) == [ok |-> TRUE, value |-> v, message |-> <<>>]
Throw(message) == [ok |-> FALSE, value |-> <<>>, message |-> message]

\* The body of a client's try block, the same in the three clients but for the
\* prefix of the non-ok message: what it throws (to its own catch) or the
\* parsed body it goes on with.
TryFetch(f, failedPrefix) ==
  IF f.kind = "rejected" THEN Throw(f.text)
  ELSE IF ~f.ok THEN Throw(<<failedPrefix>> \o f.text)
  ELSE IF f.data = <<>> THEN Throw(JsonSyntaxError)
  ELSE IF ~f.data[1].success THEN Throw(<<"API error: ">> \o Interpolate(f.data[1].error))
  ELSE Return(f.data[1])

\* The catch block: the error is thrown again with the client's prefix.
Rethrow(t, prefix) == IF t.ok THEN t ELSE Throw(<<prefix>> \o t.message)

\* getMerkleProof from its fetch's end on: return data.merkleProof.
getMerkleProofSwallow(f) ==
  LET t == TryFetch(f, "Failed to get Merkle proof: ")
  IN  IF t.ok THEN Return(t.value.merkleProof)
      ELSE Return(<<[siblings |-> <<>>, pathIndices |-> <<>>]>>)

getMerkleProofGeneric(f) ==
  LET t == TryFetch(f, "Failed to get Merkle proof: ")
  IN  IF t.ok THEN Return(t.value.merkleProof)
      ELSE Throw(<<"Could not retrieve Merkle proof">>)

getMerkleProof(f) ==
  LET t == TryFetch(f, "Failed to get Merkle proof: ")
  IN  IF t.ok THEN Return(t.value.merkleProof)
      ELSE Rethrow(t, "Could not retrieve Merkle proof: ")

\* getCurrentRoot from its fetch's end on: return data.root.
getCurrentRoot(f) ==
  LET t == TryFetch(f, "Failed to get current root: ")
  IN  IF t.ok THEN Return(t.value.root)
      ELSE Rethrow(t, "Could not retrieve current root: ")

\* checkCommitmentExists from its fetch's end on: return {exists, index}.
checkCommitmentExistsLenient(f) ==
  LET t == TryFetch(f, "Failed to check commitment: ")
  IN  IF t.ok THEN Return([exists |-> t.value.exists, index |-> t.value.index])
      ELSE Return([exists |-> <<FALSE>>, index |-> <<-1>>])

checkCommitmentExists(f) ==
  LET t == TryFetch(f, "Failed to check commitment: ")
  IN  IF t.ok THEN Return([exists |-> t.value.exists, index |-> t.value.index])
      ELSE Rethrow(t, "Could not check commitment: ")

\* -------------------------------------------------------- Merkle tree

\* The value of an empty leaf, and the tree's hash of two children, taken as
\* collision-free: a node is named by its children.
ZeroLeaf == [zero |-> 0]

HashPair(l, r) == [left |-> l, right |-> r]

\* The tree holds Capacity leaves, the deposits first and empty leaves after.
Capacity == 2 ^ TreeDepth

LeafLevel(ls) ==
  [i \in 1..Capacity |-> IF i <= Len(ls) THEN ls[i] ELSE ZeroLeaf]

ParentLevel(level) ==
  [i \in 1..(Len(level) \div 2) |-> HashPair(level[2 * i - 1], level[2 * i])]

RECURSIVE RootOfLevel(_)
RootOfLevel(level) ==
  IF Len(level) = 1 THEN level[1] ELSE RootOfLevel(ParentLevel(level))

TreeRoot(ls) == RootOfLevel(LeafLevel(ls))

\* The path from the leaf at pos (from 1) up: at each level the sibling, and
\* 0 when the node is a left child, 1 when it is a right child.
RECURSIVE PathFrom(_, _)
PathFrom(level, pos) ==
  IF Len(level) = 1 THEN <<>>
  ELSE LET right == pos % 2 = 0
           step == [sibling |-> IF right THEN level[pos - 1] ELSE level[pos + 1],
                    index |-> IF right THEN 1 ELSE 0]
       IN  <<step>> \o PathFrom(ParentLevel(level), (pos + 1) \div 2)

MerkleProofOf(ls, pos) ==
  LET p == PathFrom(LeafLevel(ls), pos)
  IN  [siblings |-> [i \in 1..Len(p) |-> p[i].sibling],
       pathIndices |-> [i \in 1..Len(p) |-> p[i].index]]

\* Re-hashing a leaf up through the siblings per the path indices.
RECURSIVE Climb(_, _, _, _)
Climb(node, siblings, pathIndices, i) ==
  IF i > Len(siblings) THEN node
  ELSE Climb(IF pathIndices[i] = 0 THEN HashPair(node, siblings[i])
                                   ELSE HashPair(siblings[i], node),
             siblings, pathIndices, i + 1)

\* proof and root are optional values, as the clients return them.
Reproduces(leaf, proof, root) ==
  /\ proof # <<>>
  /\ root # <<>>
  /\ Len(proof[1].siblings) = Len(proof[1].pathIndices)
  /\ Climb(leaf, proof[1].siblings, proof[1].pathIndices, 1) = root[1]

\* ------------------------------------------------------------ state

VARIABLES
  argsA, argsB,               \* two calls of calculateCommitment
  commitmentA, commitmentB,   \* their results, once computed
  fetchA, fetchB,             \* two ends of a client's fetch
  client,                     \* the client that handled them, "none" before
  endA, endB,                 \* what the client returned or threw for each
  leaves,                     \* the commitments deposited on chain, in order
  indexed,                    \* how many of them the indexing service holds
  op,                         \* the function the caller invoked, "none" if none
  pc,                         \* where the invocation stands
  callArgs,                   \* generateCommitmentAndProof's arguments
  commitment,                 \* its local commitment
  merkleProof,                \* its local merkleProof
  request,                    \* the request in flight
  response,                   \* the fetch's end, not yet handled
  outcome,                    \* what the invocation returned or threw
  invocations,                \* invocations started so far
  proofReqs, rootReqs, checkReqs,  \* requests this invocation issued
  proofFetch, rootFetch,      \* the fetch ends this invocation handled
  proofTreeRoot,              \* the indexer's root when it served the proof
  chainRootRead,              \* the contract's root when the route read it
  prevRoot,                   \* the root an earlier invocation returned
  selectedToken, root, recipient, nullifierHash,  \* the withdraw page's fields
  writeContract,              \* whether the hook gave the page its function
  alerted,                    \* the text of the last alert, "" if none
  clicks,                     \* clicks on the Withdraw button so far
  timers,                     \* callbacks setTimeout holds, not yet run
  writes                      \* the calls of writeContract made

commitVars == <<argsA, argsB, commitmentA, commitmentB>>

responseVars == <<fetchA, fetchB, client, endA, endB>>

chainVars == <<leaves, indexed>>

callVars == <<op, pc, callArgs, commitment, merkleProof, request, response, outcome>>

historyVars ==
  <<invocations, proofReqs, rootReqs, checkReqs, proofFetch, rootFetch,
    proofTreeRoot, chainRootRead, prevRoot>>

coreVars == <<chainVars, callVars, historyVars>>

fieldVars == <<selectedToken, root, recipient, nullifierHash>>

pageVars == <<fieldVars, writeContract, alerted, clicks, timers, writes>>

vars == <<commitVars, responseVars, coreVars, pageVars>>

\* Values of the variables a specification does not use.
IdleCommit ==
  /\ argsA = <<>>
  /\ argsB = <<>>
  /\ commitmentA = <<>>
  /\ commitmentB = <<>>

IdleResponses ==
  /\ fetchA = <<>>
  /\ fetchB = <<>>
  /\ client = "none"
  /\ endA = <<>>
  /\ endB = <<>>

IdlePage ==
  /\ selectedToken = "ETH"
  /\ root = ""
  /\ recipient = ""
  /\ nullifierHash = ""
  /\ writeContract = TRUE
  /\ alerted = ""
  /\ clicks = 0
  /\ timers = {}
  /\ writes = <<>>

\* No deposit yet, no invocation running.
IdleCore ==
  /\ leaves = <<>>
  /\ indexed = 0
  /\ op = "none"
  /\ pc = "idle"
  /\ callArgs = <<>>
  /\ commitment = <<>>
  /\ merkleProof = <<>>
  /\ request = <<>>
  /\ response = <<>>
  /\ outcome = <<>>
  /\ invocations = 0
  /\ proofReqs = 0
  /\ rootReqs = 0
  /\ checkReqs = 0
  /\ proofFetch = <<>>
  /\ rootFetch = <<>>
  /\ proofTreeRoot = <<>>
  /\ chainRootRead = <<>>
  /\ prevRoot = <<>>

\* ------------------------------------------- specification: encoder

InitCommit ==
  /\ argsA \in ValidArgs
  /\ argsB \in ValidArgs
  /\ commitmentA = <<>>
  /\ commitmentB = <<>>
  /\ IdleResponses
  /\ IdleCore
  /\ IdlePage

Calc ==
  /\ commitmentA = <<>>
  /\ commitmentA' = <<CommitmentOf(argsA)>>
  /\ commitmentB' = <<CommitmentOf(argsB)>>
  /\ UNCHANGED <<argsA, argsB, responseVars, coreVars, pageVars>>

NextCommit == Calc

SpecCommit == InitCommit /\ [][NextCommit]_vars

\* Two calls differ in at least one byte of one component.
ArgsDiffer(a, b) ==
  \/ hexToBytes(a.secret) # hexToBytes(b.secret)
  \/ hexToBytes(a.nullifier) # hexToBytes(b.nullifier)
  \/ a.assetId # b.assetId
  \/ a.amount # b.amount

SameSecretLength(a, b) == Len(hexToBytes(a.secret)) = Len(hexToBytes(b.secret))

\* C6 as claimed: two valid calls that differ in a byte of a component yield
\* different commitments.
C6_AnyDifferenceChangesCommitment ==
  (commitmentA # <<>> /\ ArgsDiffer(argsA, argsB)) => commitmentA # commitmentB

\* C6 as amended: two valid calls whose secrets hold the same number of bytes
\* and that differ in a byte of a component yield different commitments.
C6_DifferenceChangesCommitment ==
  (commitmentA # <<>> /\ SameSecretLength(argsA, argsB) /\ ArgsDiffer(argsA, argsB))
    => commitmentA # commitmentB

C6_Witness ==
  /\ commitmentA # <<>>
  /\ argsA.secret = argsB.secret
  /\ argsA.nullifier = argsB.nullifier
  /\ argsA.assetId = argsB.amount
  /\ argsA.amount = argsB.assetId
  /\ argsA.assetId # argsA.amount
  /\ Len(hexToBytes(argsA.secret)) = 1
  /\ Len(hexToBytes(argsA.nullifier)) = 1
  /\ commitmentA # commitmentB

\* ------------------------------- specification: the clients' handling

\* Messages of the TypeError a rejected fetch carries.
NetworkErrorTexts == {<<"Failed to fetch">>, <<"fetch failed">>}

\* Bodies of non-ok responses, one of them reading like the other error.
ServiceErrorTexts ==
  {<<"Internal Server Error">>, <<"API error: ", "Commitment not found">>}

ErrorFields == {<<>>, <<<<"Commitment not found">>>>}

SampleProofs ==
  {[siblings |-> [i \in 1..m |-> ZeroLeaf], pathIndices |-> [i \in 1..n |-> 0]] :
     m \in 0..MaxProofLen, n \in 0..MaxProofLen}

ProofBodies ==
  {Body(s, e, p, <<>>, <<>>, <<>>) :
     s \in BOOLEAN, e \in ErrorFields,
     p \in {<<>>} \cup {<<q>> : q \in SampleProofs}}

RootBodies ==
  {Body(s, e, <<>>, r, <<>>, <<>>) :
     s \in BOOLEAN, e \in ErrorFields, r \in {<<>>, <<ZeroLeaf>>}}

CheckBodies ==
  {Body(s, e, <<>>, <<>>, x, i) :
     s \in BOOLEAN, e \in ErrorFields,
     x \in {<<>>, <<TRUE>>, <<FALSE>>}, i \in {<<>>, <<-1>>, <<0>>}}

\* Every end of a fetch a client may meet, whatever the service sends.
FetchOutcomes ==
  {Rejected(m) : m \in NetworkErrorTexts}
    \cup {Response(FALSE, t, <<>>) : t \in ServiceErrorTexts}
    \cup {Response(TRUE, <<"<html>">>, <<>>)}
    \cup {Response(TRUE, <<>>, <<b>>) :
            b \in ProofBodies \cup RootBodies \cup CheckBodies}

InitResponses ==
  /\ fetchA \in FetchOutcomes
  /\ fetchB \in FetchOutcomes
  /\ client = "none"
  /\ endA = <<>>
  /\ endB = <<>>
  /\ IdleCommit
  /\ IdleCore
  /\ IdlePage

HandleMerkleProof ==
  /\ client = "none"
  /\ client' = "getMerkleProof"
  /\ endA' = getMerkleProof(fetchA)
  /\ endB' = getMerkleProof(fetchB)
  /\ UNCHANGED <<fetchA, fetchB, commitVars, coreVars, pageVars>>

HandleCurrentRoot ==
  /\ client = "none"
  /\ client' = "getCurrentRoot"
  /\ endA' = getCurrentRoot(fetchA)
  /\ endB' = getCurrentRoot(fetchB)
  /\ UNCHANGED <<fetchA, fetchB, commitVars, coreVars, pageVars>>

HandleCheckCommitment ==
  /\ client = "none"
  /\ client' = "checkCommitmentExists"
  /\ endA' = checkCommitmentExists(fetchA)
  /\ endB' = checkCommitmentExists(fetchB)
  /\ UNCHANGED <<fetchA, fetchB, commitVars, coreVars, pageVars>>

NextResponses == HandleMerkleProof \/ HandleCurrentRoot \/ HandleCheckCommitment

SpecResponses == InitResponses /\ [][NextResponses]_vars

\* The service answered that the commitment is absent: HTTP ok, success false.
AnsweredAbsent(f) ==
  f.kind = "response" /\ f.ok /\ f.data # <<>> /\ ~f.data[1].success

\* The service failed: the fetch rejected, or the response is not ok.
ServiceFailed(f) == f.kind = "rejected" \/ ~f.ok

\* C4: the error getMerkleProof throws for an absent commitment and the error
\* it throws for a service failure differ in their messages.
C4_ErrorsDistinct ==
  (client = "getMerkleProof" /\ AnsweredAbsent(fetchA) /\ ServiceFailed(fetchB))
    => (~endA.ok /\ ~endB.ok /\ endA.message # endB.message)

C4_Witness ==
  /\ client = "getMerkleProof"
  /\ AnsweredAbsent(fetchA)
  /\ fetchA.data[1].error = <<<<"Commitment not found">>>>
  /\ fetchB = Response(FALSE, <<"API error: ", "Commitment not found">>, <<>>)
  /\ ~endA.ok
  /\ ~endB.ok

\* C7: every proof getMerkleProof returns has as many siblings as path
\* indices, whatever body came with success true.
C7_LengthInvariant ==
  (client = "getMerkleProof" /\ endA.ok)
    => /\ endA.value # <<>>
       /\ Len(endA.value[1].siblings) = Len(endA.value[1].pathIndices)

\* The service answered a lookup: HTTP ok, success true, exists false.
AnsweredNotFound(f) ==
  /\ f.kind = "response"
  /\ f.ok
  /\ f.data # <<>>
  /\ f.data[1].success
  /\ f.data[1].exists = <<FALSE>>

\* The lookup failed: the fetch rejected, the response is not ok, or its body
\* says success false.
LookupFailed(f) ==
  \/ f.kind = "rejected"
  \/ ~f.ok
  \/ (f.data # <<>> /\ ~f.data[1].success)

\* C9: checkCommitmentExists returns {exists: false, index} for a not-found
\* answer and throws, returning nothing, whenever the lookup failed.
C9_NotFoundIsNotFailure ==
  client = "checkCommitmentExists"
    => /\ AnsweredNotFound(fetchA)
            => endA = Return([exists |-> <<FALSE>>, index |-> fetchA.data[1].index])
       /\ LookupFailed(fetchA) => (~endA.ok /\ endA.value = <<>>)

C9_Witness ==
  /\ client = "checkCommitmentExists"
  /\ AnsweredNotFound(fetchA)
  /\ fetchA.data[1].index = <<-1>>
  /\ endA.ok
  /\ LookupFailed(fetchB)
  /\ ~endB.ok

\* ------------------------- specification: generateCommitmentAndProof
\* One invocation runs at a time: the module keeps no state between
\* invocations, so two of them share nothing but the service and the chain,
\* which deposits change at any step.

Arguments(secret, nullifier, assetId, amount) ==
  [secret |-> secret, nullifier |-> nullifier, assetId |-> assetId, amount |-> amount]

\* The calls the caller makes: two well-formed ones, one of them written
\* without the 0x prefix, a secret of odd length, a secret with a letter that
\* is no hex digit.
CallArguments ==
  {Arguments(<<"0", "x", "0", "1">>, <<"0", "x", "0", "2">>, 1, 1),
   Arguments(<<"0", "2">>, <<"0", "x", "0", "2">>, 1, 256),
   Arguments(<<"0", "x", "0", "1", "1">>, <<"0", "x", "0", "2">>, 1, 1),
   Arguments(<<"0", "x", "0", "g">>, <<"0", "x", "0", "2">>, 1, 1)}

WellFormedArgs(a) == WellFormedHex(a.secret) /\ WellFormedHex(a.nullifier)

\* The commitments depositors put in the tree: those of the well-formed calls,
\* and one of a depositor who never calls.
DepositedCommitments ==
  {CommitmentOf(a) : a \in {b \in CallArguments : WellFormedArgs(b)}}
    \cup {CommitmentOf(Arguments(<<"0", "x", "0", "2", "0", "2">>, <<"0", "x", "0", "1">>, 256, 1))}

ProofRequest(c) == [url |-> "/api/getMerkleProof", method |-> "POST", commitment |-> <<c>>]

RootRequest == [url |-> "/api/getContractRoot", method |-> "GET", commitment |-> <<>>]

CheckRequest(c) == [url |-> "/api/checkCommitment", method |-> "POST", commitment |-> <<c>>]

\* The leaves the indexing service holds.
IndexedLeaves == SubSeq(leaves, 1, indexed)

IndexOf(ls, c) == CHOOSE i \in 1..Len(ls) : ls[i] = c

Holds(ls, c) == \E i \in 1..Len(ls) : ls[i] = c

\* A deposit adds a commitment to the on-chain tree.
Deposit(c) ==
  /\ Len(leaves) < MaxDeposits
  /\ Len(leaves) < Capacity
  /\ ~Holds(leaves, c)
  /\ leaves' = Append(leaves, c)
  /\ UNCHANGED <<indexed, callVars, historyVars, commitVars, responseVars, pageVars>>

\* The indexing service takes in the next deposit.
IndexDeposit ==
  /\ indexed < Len(leaves)
  /\ indexed' = indexed + 1
  /\ UNCHANGED <<leaves, callVars, historyVars, commitVars, responseVars, pageVars>>

\* What the object generateCommitmentAndProof returns holds.
GenerateResultCachedRoot(c, proof, r) ==
  [commitment |-> c, merkleProof |-> proof,
   root |-> IF prevRoot # <<>> THEN prevRoot ELSE r]

GenerateResult(c, proof, r) ==
  [commitment |-> c, merkleProof |-> proof, root |-> r]

\* generateCommitmentAndProof up to its first await: the commitment is
\* derived and getMerkleProof issues its fetch.
InvokeGenerate(a) ==
  /\ pc = "idle"
  /\ invocations < MaxInvocations
  /\ invocations' = invocations + 1
  /\ op' = "generateCommitmentAndProof"
  /\ callArgs' = <<a>>
  /\ commitment' = <<CommitmentOf(a)>>
  /\ request' = <<ProofRequest(CommitmentOf(a))>>
  /\ proofReqs' = 1
  /\ pc' = "awaitProof"
  /\ UNCHANGED <<merkleProof, response, outcome, rootReqs, checkReqs, proofFetch,
                 rootFetch, proofTreeRoot, chainRootRead, prevRoot>>
  /\ UNCHANGED <<chainVars, commitVars, responseVars, pageVars>>

\* checkCommitmentExists up to its await: the fetch is issued.
InvokeCheck(c) ==
  /\ pc = "idle"
  /\ invocations < MaxInvocations
  /\ invocations' = invocations + 1
  /\ op' = "checkCommitmentExists"
  /\ request' = <<CheckRequest(c)>>
  /\ checkReqs' = 1
  /\ pc' = "awaitCheck"
  /\ UNCHANGED <<callArgs, commitment, merkleProof, response, outcome, proofReqs,
                 rootReqs, proofFetch, rootFetch, proofTreeRoot, chainRootRead,
                 prevRoot>>
  /\ UNCHANGED <<chainVars, commitVars, responseVars, pageVars>>

\* The fetch rejects: the request or its response is lost.
NetworkFails ==
  /\ request # <<>>
  /\ request' = <<>>
  /\ response' = <<Rejected(<<"Failed to fetch">>)>>
  /\ UNCHANGED <<op, pc, callArgs, commitment, merkleProof, outcome>>
  /\ UNCHANGED <<chainVars, historyVars, commitVars, responseVars, pageVars>>

\* The service behind a POST route fails: a non-ok response.
ServiceFails ==
  /\ request # <<>>
  /\ request[1].method = "POST"
  /\ request' = <<>>
  /\ response' = <<Response(FALSE, <<"Internal Server Error">>, <<>>)>>
  /\ UNCHANGED <<op, pc, callArgs, commitment, merkleProof, outcome>>
  /\ UNCHANGED <<chainVars, historyVars, commitVars, responseVars, pageVars>>

\* The indexing service answers a proof request from the leaves it holds.
ProofAnswer(c) ==
  IF Holds(IndexedLeaves, c)
  THEN Response(TRUE, <<>>,
         <<Body(TRUE, <<>>, <<MerkleProofOf(IndexedLeaves, IndexOf(IndexedLeaves, c))>>,
                <<>>, <<>>, <<>>)>>)
  ELSE Response(TRUE, <<>>,
         <<Body(FALSE, <<<<"Commitment not found">>>>, <<>>, <<>>, <<>>, <<>>)>>)

ServeProof ==
  /\ request # <<>>
  /\ request[1].url = "/api/getMerkleProof"
  /\ request' = <<>>
  /\ response' = <<ProofAnswer(request[1].commitment[1])>>
  /\ proofTreeRoot' = <<TreeRoot(IndexedLeaves)>>
  /\ UNCHANGED <<op, pc, callArgs, commitment, merkleProof, outcome>>
  /\ UNCHANGED <<invocations, proofReqs, rootReqs, checkReqs, proofFetch, rootFetch,
                 chainRootRead, prevRoot>>
  /\ UNCHANGED <<chainVars, commitVars, responseVars, pageVars>>

\* The indexing service answers an existence check.
CheckAnswer(c) ==
  IF Holds(IndexedLeaves, c)
  THEN Response(TRUE, <<>>,
         <<Body(TRUE, <<>>, <<>>, <<>>, <<TRUE>>, <<IndexOf(IndexedLeaves, c) - 1>>)>>)
  ELSE Response(TRUE, <<>>, <<Body(TRUE, <<>>, <<>>, <<>>, <<FALSE>>, <<-1>>)>>)

ServeCheck ==
  /\ request # <<>>
  /\ request[1].url = "/api/checkCommitment"
  /\ request' = <<>>
  /\ response' = <<CheckAnswer(request[1].commitment[1])>>
  /\ UNCHANGED <<op, pc, callArgs, commitment, merkleProof, outcome>>
  /\ UNCHANGED <<chainVars, historyVars, commitVars, responseVars, pageVars>>

\* The route GET /api/getContractRoot: the contract's getCurrentRoot is read
\* and answered with success true, or the read fails and the route answers
\* with status 500 and a body with success false.
ContractErrorText ==
  <<"{\"success\":false,\"error\":\"Failed to retrieve current root from contract\"}">>

GET(readOk) ==
  IF readOk
  THEN Response(TRUE, <<>>, <<Body(TRUE, <<>>, <<>>, <<TreeRoot(leaves)>>, <<>>, <<>>)>>)
  ELSE Response(FALSE, ContractErrorText,
         <<Body(FALSE, <<<<"Failed to retrieve current root from contract">>>>,
                <<>>, <<>>, <<>>, <<>>)>>)

ServeRoot ==
  /\ request # <<>>
  /\ request[1].url = "/api/getContractRoot"
  /\ request' = <<>>
  /\ \E readOk \in BOOLEAN : response' = <<GET(readOk)>>
  /\ chainRootRead' = <<TreeRoot(leaves)>>
  /\ UNCHANGED <<op, pc, callArgs, commitment, merkleProof, outcome>>
  /\ UNCHANGED <<invocations, proofReqs, rootReqs, checkReqs, proofFetch, rootFetch,
                 proofTreeRoot, prevRoot>>
  /\ UNCHANGED <<chainVars, commitVars, responseVars, pageVars>>

\* generateCommitmentAndProof resumes after await getMerkleProof: a throw ends
\* the invocation, a value is kept and getCurrentRoot issues its fetch.
ResumeProof ==
  /\ pc = "awaitProof"
  /\ response # <<>>
  /\ proofFetch' = response
  /\ response' = <<>>
  /\ LET r == getMerkleProof(response[1])
     IN  IF r.ok
         THEN /\ merkleProof' = r.value
              /\ request' = <<RootRequest>>
              /\ rootReqs' = rootReqs + 1
              /\ pc' = "awaitRoot"
              /\ UNCHANGED outcome
         ELSE /\ outcome' = <<r>>
              /\ pc' = "done"
              /\ UNCHANGED <<merkleProof, request, rootReqs>>
  /\ UNCHANGED <<op, callArgs, commitment>>
  /\ UNCHANGED <<invocations, proofReqs, checkReqs, rootFetch, proofTreeRoot,
                 chainRootRead, prevRoot>>
  /\ UNCHANGED <<chainVars, commitVars, responseVars, pageVars>>

\* generateCommitmentAndProof resumes after await getCurrentRoot and returns.
ResumeRoot ==
  /\ pc = "awaitRoot"
  /\ response # <<>>
  /\ rootFetch' = response
  /\ response' = <<>>
  /\ LET r == getCurrentRoot(response[1])
     IN  outcome' = IF r.ok
                    THEN <<Return(GenerateResult(commitment[1], merkleProof, r.value))>>
                    ELSE <<r>>
  /\ pc' = "done"
  /\ UNCHANGED <<op, callArgs, commitment, merkleProof, request>>
  /\ UNCHANGED <<invocations, proofReqs, rootReqs, checkReqs, proofFetch,
                 proofTreeRoot, chainRootRead, prevRoot>>
  /\ UNCHANGED <<chainVars, commitVars, responseVars, pageVars>>

\* checkCommitmentExists resumes after its fetch and returns or throws.
ResumeCheck ==
  /\ pc = "awaitCheck"
  /\ response # <<>>
  /\ response' = <<>>
  /\ outcome' = <<checkCommitmentExists(response[1])>>
  /\ pc' = "done"
  /\ UNCHANGED <<op, callArgs, commitment, merkleProof, request>>
  /\ UNCHANGED <<chainVars, historyVars, commitVars, responseVars, pageVars>>

\* The caller takes the outcome; the invocation's locals are gone.
Settle ==
  /\ pc = "done"
  /\ pc' = "idle"
  /\ op' = "none"
  /\ prevRoot' = IF op = "generateCommitmentAndProof" /\ outcome[1].ok
                 THEN outcome[1].value.root ELSE prevRoot
  /\ callArgs' = <<>>
  /\ commitment' = <<>>
  /\ merkleProof' = <<>>
  /\ outcome' = <<>>
  /\ proofReqs' = 0
  /\ rootReqs' = 0
  /\ checkReqs' = 0
  /\ proofFetch' = <<>>
  /\ rootFetch' = <<>>
  /\ proofTreeRoot' = <<>>
  /\ chainRootRead' = <<>>
  /\ UNCHANGED <<request, response, invocations>>
  /\ UNCHANGED <<chainVars, commitVars, responseVars, pageVars>>

Init == IdleCore /\ IdleCommit /\ IdleResponses /\ IdlePage

Next ==
  \/ \E c \in DepositedCommitments : Deposit(c)
  \/ IndexDeposit
  \/ \E a \in CallArguments : InvokeGenerate(a)
  \/ \E c \in DepositedCommitments : InvokeCheck(c)
  \/ NetworkFails
  \/ ServiceFails
  \/ ServeProof
  \/ ServeCheck
  \/ ServeRoot
  \/ ResumeProof
  \/ ResumeRoot
  \/ ResumeCheck
  \/ Settle

Spec == Init /\ [][Next]_vars

Generating == op = "generateCommitmentAndProof"

Returned == Generating /\ pc = "done" /\ outcome[1].ok

\* A fetch that ended in failure: rejected, not ok, or a body with success
\* false.
FetchFailed(f) == f # <<>> /\ (ServiceFailed(f[1]) \/ AnsweredAbsent(f[1]))

\* C1 as claimed: whenever generateCommitmentAndProof returns, re-hashing the
\* commitment up through the proof's siblings per its path indices gives the
\* returned root, under every interleaving with deposits.
C1_ResultReproducesRoot ==
  Returned
    => Reproduces(outcome[1].value.commitment, outcome[1].value.merkleProof,
                  outcome[1].value.root)

\* C1 as amended: it does so whenever the contract's root at the time of the
\* root fetch is the root of the tree the indexing service built the proof
\* from.
C1_ResultReproducesUnchangedRoot ==
  (Returned /\ proofTreeRoot # <<>> /\ proofTreeRoot = chainRootRead)
    => Reproduces(outcome[1].value.commitment, outcome[1].value.merkleProof,
                  outcome[1].value.root)

C1_Witness ==
  /\ Returned
  /\ proofTreeRoot = chainRootRead
  /\ Len(leaves) = 2
  /\ outcome[1].value.commitment = leaves[2]
  /\ outcome[1].value.merkleProof[1].pathIndices[1] = 1
  /\ Reproduces(outcome[1].value.commitment, outcome[1].value.merkleProof,
                outcome[1].value.root)

\* C2: in one invocation the commitment is derived from the arguments, the
\* proof request carries it, the root request is issued only once the proof
\* fetch has ended, and the object returned holds the proof and the root the
\* fetches of this invocation brought.
C2_Ordering ==
  Generating
    => /\ commitment = <<CommitmentOf(callArgs[1])>>
       /\ (request # <<>> /\ request[1].url = "/api/getMerkleProof")
            => request[1].commitment = commitment
       /\ (rootReqs > 0 \/ pc = "awaitRoot") => proofFetch # <<>>
       /\ Returned
            => /\ proofFetch # <<>>
               /\ rootFetch # <<>>
               /\ outcome[1].value.commitment = commitment[1]
               /\ outcome[1].value.merkleProof = proofFetch[1].data[1].merkleProof
               /\ outcome[1].value.root = rootFetch[1].data[1].root

C2_Witness ==
  /\ Returned
  /\ invocations = 2
  /\ prevRoot # <<>>
  /\ prevRoot # outcome[1].value.root
  /\ outcome[1].value.root = rootFetch[1].data[1].root

\* C3: when the proof fetch or the root fetch fails, the invocation ends by
\* throwing an error and returns no value.
C3_FailurePropagates ==
  (Generating /\ (FetchFailed(proofFetch) \/ FetchFailed(rootFetch)))
    => /\ pc = "done"
       /\ ~outcome[1].ok
       /\ outcome[1].value = <<>>
       /\ outcome[1].message # <<>>

C3_Witness ==
  /\ Generating
  /\ proofFetch = <<Response(FALSE, <<"Internal Server Error">>, <<>>)>>
  /\ pc = "done"
  /\ ~outcome[1].ok
  /\ outcome[1].message =
       <<"Could not retrieve Merkle proof: ", "Failed to get Merkle proof: ",
         "Internal Server Error">>

\* C5: a call with a malformed secret or nullifier derives no commitment,
\* issues no request and ends in an error.
C5_MalformedInputRejected ==
  (Generating /\ ~WellFormedArgs(callArgs[1]))
    => /\ commitment = <<>>
       /\ proofReqs = 0
       /\ rootReqs = 0
       /\ pc = "done" => ~outcome[1].ok

\* C8: an invocation issues at most one request of each kind, and no root
\* request once the proof fetch has failed.
C8_NoRetry ==
  /\ proofReqs <= 1
  /\ rootReqs <= 1
  /\ checkReqs <= 1
  /\ proofReqs + rootReqs + checkReqs <= (IF Generating THEN 2 ELSE 1)
  /\ FetchFailed(proofFetch) => rootReqs = 0

C8_Witness ==
  /\ Generating
  /\ pc = "done"
  /\ FetchFailed(proofFetch)
  /\ proofReqs = 1
  /\ rootReqs = 0

\* ------------------------------------- specification: withdraw page

TORNADO_CONTRACT_ADDRESS == "0xb581c9264f59bf0289fa76d61b2d0746dce3c30d"

zeroAddress == "0x0000000000000000000000000000000000000000"

\* The symbols of TOKENS, and the texts typed into the fields.
TokenSymbols == {"ETH", "USDC"}

RootTexts == {"", "0x11", "0x22"}

NullifierHashTexts == {"", "0x33"}

RecipientTexts ==
  {"", "0x123", zeroAddress, "0x52908400098527886e0f7030069857d2e4169ee7"}

\* isAddress on the texts typed: 0x and 40 hex digits, here all in lower case.
isAddress(a) ==
  a \in {zeroAddress, "0x52908400098527886e0f7030069857d2e4169ee7"}

\* The recipient passes the page's check.
RecipientAcceptedNoZeroCheck(r) == isAddress(r)

RecipientAccepted(r) == ~(~isAddress(r) \/ r = zeroAddress)

\* The alert handleWithdraw raises before it returns early, "" when it goes on.
WithdrawAlert ==
  IF selectedToken # "ETH"
    THEN "This contract only supports ETH (fixed 1ETH) withdraw"
  ELSE IF root = "" \/ nullifierHash = "" \/ recipient = ""
    THEN "Please fill in root, nullifierHash, recipient"
  ELSE IF ~RecipientAccepted(recipient)
    THEN "Invalid recipient address"
  ELSE IF ~writeContract
    THEN "Withdraw not ready (wagmi hook not initialized?)"
  ELSE ""

InitWithdraw ==
  /\ selectedToken \in TokenSymbols
  /\ root = ""
  /\ recipient = ""
  /\ nullifierHash = ""
  /\ writeContract \in BOOLEAN
  /\ alerted = ""
  /\ clicks = 0
  /\ timers = {}
  /\ writes = <<>>
  /\ IdleCore
  /\ IdleCommit
  /\ IdleResponses

setSelectedToken(v) ==
  /\ selectedToken' = v
  /\ UNCHANGED <<root, recipient, nullifierHash, writeContract, alerted, clicks,
                 timers, writes, commitVars, responseVars, coreVars>>

setRoot(v) ==
  /\ root' = v
  /\ UNCHANGED <<selectedToken, recipient, nullifierHash, writeContract, alerted,
                 clicks, timers, writes, commitVars, responseVars, coreVars>>

setRecipient(v) ==
  /\ recipient' = v
  /\ UNCHANGED <<selectedToken, root, nullifierHash, writeContract, alerted, clicks,
                 timers, writes, commitVars, responseVars, coreVars>>

setNullifierHash(v) ==
  /\ nullifierHash' = v
  /\ UNCHANGED <<selectedToken, root, recipient, writeContract, alerted, clicks,
                 timers, writes, commitVars, responseVars, coreVars>>

\* A click on Withdraw: an alert and an early return, or a callback handed to
\* setTimeout that holds the fields of this render (clicked records the
\* fields as they stood at the click).
handleWithdraw ==
  /\ clicks < MaxClicks
  /\ clicks' = clicks + 1
  /\ alerted' = WithdrawAlert
  /\ timers' = IF WithdrawAlert = ""
               THEN timers \cup {[click |-> clicks + 1,
                                  clicked |-> [selectedToken |-> selectedToken,
                                               root |-> root,
                                               nullifierHash |-> nullifierHash,
                                               recipient |-> recipient],
                                  args |-> <<root, nullifierHash, recipient>>]}
               ELSE timers
  /\ UNCHANGED <<fieldVars, writeContract, writes, commitVars, responseVars, coreVars>>

\* A callback runs: writeContract is called with the arguments it holds.
TimerFires(t) ==
  /\ t \in timers
  /\ timers' = timers \ {t}
  /\ writes' = Append(writes, [click |-> t.click,
                               clicked |-> t.clicked,
                               address |-> TORNADO_CONTRACT_ADDRESS,
                               functionName |-> "withdraw",
                               args |-> t.args])
  /\ UNCHANGED <<fieldVars, writeContract, alerted, clicks, commitVars,
                 responseVars, coreVars>>

NextWithdraw ==
  \/ \E v \in TokenSymbols : setSelectedToken(v)
  \/ \E v \in RootTexts : setRoot(v)
  \/ \E v \in RecipientTexts : setRecipient(v)
  \/ \E v \in NullifierHashTexts : setNullifierHash(v)
  \/ handleWithdraw
  \/ \E t \in timers : TimerFires(t)

SpecWithdraw == InitWithdraw /\ [][NextWithdraw]_vars

\* The fields of a click are those the claim lets through.
ClickPasses(c) ==
  /\ c.selectedToken = "ETH"
  /\ c.root # ""
  /\ c.nullifierHash # ""
  /\ c.recipient # ""
  /\ isAddress(c.recipient)
  /\ c.recipient # zeroAddress

Submits(w) ==
  /\ ClickPasses(w.clicked)
  /\ w.args = <<w.clicked.root, w.clicked.nullifierHash, w.clicked.recipient>>

\* C10: a write is scheduled, and made, only for a click whose fields passed
\* the checks, at most once per click, and with the fields of that click as
\* its arguments.
C10_WithdrawGuard ==
  /\ \A t \in timers : Submits(t)
  /\ \A i \in 1..Len(writes) :
       /\ Submits(writes[i])
       /\ writes[i].functionName = "withdraw"
       /\ \A j \in 1..Len(writes) : writes[i].click = writes[j].click => i = j
  /\ \A t \in timers : \A i \in 1..Len(writes) : writes[i].click # t.click
  /\ (clicks > 0 /\ alerted # "")
       => /\ \A t \in timers : t.click # clicks
          /\ \A i \in 1..Len(writes) : writes[i].click # clicks

C10_Witness ==
  /\ Len(writes) = 1
  /\ writes[1].click = 1
  /\ writes[1].args = <<"0x11", "0x33", "0x52908400098527886e0f7030069857d2e4169ee7">>
  /\ root = "0x22"
  /\ recipient = zeroAddress
  /\ clicks = 2
  /\ alerted = "Invalid recipient address"

====
